---------------------------- MODULE Spec2Model ----------------------------
(***************************************************************************)
(* A model of liboverviewer: the coordinate algebra of coords.rs (levels,  *)
(* size(), join, split over 64-bit two's-complement integers) and the      *)
(* region access layer of world.rs (Regionset::new, get_chunk,             *)
(* get_chunk_mtime with the 16-entry handle cache, World::new).            *)
(***************************************************************************)
EXTENDS Integers, Sequences, FiniteSets, TLC

(***************************************************************************)
(* 64-bit two's-complement integers (i64).  A value is its bit pattern,    *)
(* held as four 16-bit limbs <<l1, l2, l3, l4>>, least significant first:  *)
(* the pattern is l1 + l2 * 2^16 + l3 * 2^32 + l4 * 2^48.                  *)
(***************************************************************************)

\* coords.rs:146  pub x: i64
I64Bits == 64

RECURSIVE Pow2(_)
Pow2(n) == IF n = 0 THEN 1 ELSE 2 * Pow2(n - 1)

LimbBase == Pow2(I64Bits \div 4)
LimbTop == LimbBase \div 2

\* The sign bit (bit 63).
SignBit(v) == v[4] \div LimbTop

\* The limb of a sign extension.
SignLimb(neg) == IF neg THEN LimbBase - 1 ELSE 0

\* The i64 holding the integer n, for -2^30 <= n < 2^30.
FromInt(n) ==
    <<n % LimbBase, (n \div LimbBase) % LimbBase, SignLimb(n < 0), SignLimb(n < 0)>>

\* An i64 is "small" when it holds an integer n with -2^30 <= n < 2^30.
IsSmall(v) ==
    \/ v[4] = 0 /\ v[3] = 0 /\ v[2] < (LimbTop \div 2)
    \/ v[4] = LimbBase - 1 /\ v[3] = LimbBase - 1 /\ v[2] >= LimbTop + (LimbTop \div 2)

\* The integer a small i64 holds (for a negative one, -(~v) - 1).
ToInt(v) ==
    IF SignBit(v) = 0 THEN v[1] + v[2] * LimbBase
    ELSE -((LimbBase - 1 - v[1]) + (LimbBase - 1 - v[2]) * LimbBase) - 1

I64Zero == <<0, 0, 0, 0>>
I64One == <<1, 0, 0, 0>>
\* i64::MIN and i64::MAX
I64Min == <<0, 0, 0, LimbTop>>
I64Max == <<LimbBase - 1, LimbBase - 1, LimbBase - 1, LimbTop - 1>>

\* v << 1: the bit shifted past bit 63 is lost.
Shl1(v) ==
    <<(2 * v[1]) % LimbBase,
      ((2 * v[2]) % LimbBase) + (v[1] \div LimbTop),
      ((2 * v[3]) % LimbBase) + (v[2] \div LimbTop),
      ((2 * v[4]) % LimbBase) + (v[3] \div LimbTop)>>

\* v >> 1 on a signed integer: the sign bit is replicated.
Shr1(v) ==
    <<(v[1] \div 2) + (v[2] % 2) * LimbTop,
      (v[2] \div 2) + (v[3] % 2) * LimbTop,
      (v[3] \div 2) + (v[4] % 2) * LimbTop,
      (v[4] \div 2) + SignBit(v) * LimbTop>>

\* v << s and v >> s for 0 <= s < 64.
RECURSIVE Shl(_, _)
Shl(v, s) == IF s = 0 THEN v ELSE Shl(Shl1(v), s - 1)

RECURSIVE Shr(_, _)
Shr(v, s) == IF s = 0 THEN v ELSE Shr(Shr1(v), s - 1)

\* a & b on the low n bits of two limbs.
RECURSIVE AndBits(_, _, _)
AndBits(a, b, n) ==
    IF n = 0 THEN 0
    ELSE (a % 2) * (b % 2) + 2 * AndBits(a \div 2, b \div 2, n - 1)

\* v & w
BitAnd(v, w) ==
    [i \in 1 .. 4 |-> AndBits(v[i], w[i], I64Bits \div 4)]

\* !v
BitNot(v) == [i \in 1 .. 4 |-> LimbBase - 1 - v[i]]

\* v + w + cin, wrapped to 64 bits: the limbs are added with their carries.
AddCarry(v, w, cin) ==
    LET s1 == v[1] + w[1] + cin
        s2 == v[2] + w[2] + (s1 \div LimbBase)
        s3 == v[3] + w[3] + (s2 \div LimbBase)
        s4 == v[4] + w[4] + (s3 \div LimbBase)
    IN  <<s1 % LimbBase, s2 % LimbBase, s3 % LimbBase, s4 % LimbBase>>

\* v + w and v - w, wrapped to 64 bits.
WrappingAdd(v, w) == AddCarry(v, w, 0)
WrappingSub(v, w) == AddCarry(v, BitNot(w), 1)

\* Signed overflow of v + w: the operands agree in sign and the sum does not.
AddOverflows(v, w) ==
    /\ SignBit(v) = SignBit(w)
    /\ SignBit(WrappingAdd(v, w)) # SignBit(v)

(***************************************************************************)
(* coords.rs: the level hierarchy, size(), Contained, join and split.      *)
(***************************************************************************)

\* coords.rs:28, 100, 105, 110, 114: Block and the Succ chain above it.
Levels == <<"Block", "Section", "Chunk", "Region", "World">>

LevelSet == {Levels[i] : i \in 1 .. Len(Levels)}

\* The number of Succ wrappers of a level's type plus one.
Rank(l) == CHOOSE i \in 1 .. Len(Levels) : Levels[i] = l

\* The $parent of a contains! declaration (Region = Succ<Chunk>, ...).
Parent(l) == Levels[Rank(l) - 1]

\* A: Contained<B>.  Block: Contained<Succ<M>> for every M, and
\* Succ<N>: Contained<Succ<M>> whenever N: Contained<M>.
RECURSIVE Contained(_, _)
Contained(a, b) ==
    IF b = "Block" THEN FALSE
    ELSE IF a = "Block" THEN TRUE
    ELSE Contained(Parent(a), Parent(b))

\* The ($x, $y, $z) of each contains! declaration.
Added(l) ==
    CASE l = "Section" -> <<4, 4, 4>>
      [] l = "Chunk"   -> <<0, 4, 0>>
      [] l = "Region"  -> <<5, 0, 5>>

\* <L as System>::size() panics for World ("infinity").
SizePanics(l) == l = "World"

\* <L as System>::size() for the levels where it returns: the default
\* (0, 0, 0) for Block, the contains! body for Section, Chunk and Region.
RECURSIVE Size(_)
Size(l) ==
    IF l = "Block" THEN <<0, 0, 0>>
    ELSE LET p == Size(Parent(l))
             a == Added(l)
         IN  <<a[1] + p[1], a[2] + p[2], a[3] + p[3]>>

\* The levels on which size() runs when size() is called on l: a contains!
\* level calls its parent's size(); World panics before calling anything.
RECURSIVE SizeCalls(_)
SizeCalls(l) ==
    IF l = "Block" \/ l = "World" THEN {l}
    ELSE {l} \cup SizeCalls(Parent(l))

Coord(cx, cy, cz) == [x |-> cx, y |-> cy, z |-> cz]

ZeroCoord == Coord(I64Zero, I64Zero, I64Zero)

\* A join that asked the outer level End for its size.
JoinSizeArgsOuter(El, In, End) == <<End, El>>

\* The two levels join evaluates size() on, in order: <In as System>::size()
\* then <El as System>::size().
JoinSizeArgs(El, In, End) == <<In, El>>

\* The two levels split evaluates size() on, in order: <Mid as System>::size()
\* then <El as System>::size().
SplitSizeArgs(El, Mid, In) == <<Mid, El>>

\* One axis of join: x + (ox << (osizex - sizex)).
JoinAxis(v, o, shift) == WrappingAdd(v, Shl(o, shift))

\* The addition of join overflows i64: a panic in a build with overflow
\* checks, the wrapped sum otherwise.
JoinAxisOverflows(v, o, shift) == AddOverflows(v, Shl(o, shift))

\* self.join(other) for self: Coord<El, In>, other: Coord<In, End>.
Join(self, other, El, In, End) ==
    LET q == JoinSizeArgs(El, In, End)
        osize == Size(q[1])
        size == Size(q[2])
    IN  Coord(JoinAxis(self.x, other.x, osize[1] - size[1]),
              JoinAxis(self.y, other.y, osize[2] - size[2]),
              JoinAxis(self.z, other.z, osize[3] - size[3]))

JoinOverflows(self, other, El, In, End) ==
    LET q == JoinSizeArgs(El, In, End)
        osize == Size(q[1])
        size == Size(q[2])
    IN  \/ JoinAxisOverflows(self.x, other.x, osize[1] - size[1])
        \/ JoinAxisOverflows(self.y, other.y, osize[2] - size[2])
        \/ JoinAxisOverflows(self.z, other.z, osize[3] - size[3])

\* A mask that lost its "- 1".
LowMaskNoMinus(shift) == Shl(I64One, shift)

\* (1 << shift) - 1
LowMask(shift) == WrappingSub(Shl(I64One, shift), I64One)

\* -v
Negate(v) == WrappingSub(I64Zero, v)

\* A low part taken as the remainder x % (1 << shift), which has the sign of x.
SplitLowRemainder(v, shift) ==
    IF SignBit(v) = 1 THEN Negate(BitAnd(Negate(v), LowMask(shift)))
    ELSE BitAnd(v, LowMask(shift))

\* A high part taken as the quotient x / (1 << shift), which rounds to zero.
SplitHighTruncating(v, shift) ==
    IF SignBit(v) = 1 THEN Negate(Shr(Negate(v), shift)) ELSE Shr(v, shift)

\* One axis of split: x & ((1 << shift) - 1) and x >> shift.
SplitLow(v, shift) == BitAnd(v, LowMask(shift))
SplitHigh(v, shift) == Shr(v, shift)

\* self.split::<Mid>() for self: Coord<El, In>: the pair (a, b).
Split(self, El, Mid, In) ==
    LET q == SplitSizeArgs(El, Mid, In)
        osize == Size(q[1])
        size == Size(q[2])
    IN  <<Coord(SplitLow(self.x, osize[1] - size[1]),
                SplitLow(self.y, osize[2] - size[2]),
                SplitLow(self.z, osize[3] - size[3])),
          Coord(SplitHigh(self.x, osize[1] - size[1]),
                SplitHigh(self.y, osize[2] - size[2]),
                SplitHigh(self.z, osize[3] - size[3]))>>

(***************************************************************************)
(* world.rs: file names of a region directory.  A name is a sequence of    *)
(* characters.                                                             *)
(***************************************************************************)

DigitChars == <<"0", "1", "2", "3", "4", "5", "6", "7", "8", "9">>

DigitSet == {DigitChars[i] : i \in 1 .. Len(DigitChars)}

DigitValue(ch) == (CHOOSE i \in 1 .. Len(DigitChars) : DigitChars[i] = ch) - 1

\* Quotient and remainder of the unsigned value of v by ten, by long
\* division over the limbs, most significant first.
DivRemTen(v) ==
    LET c4 == v[4]
        c3 == (c4 % 10) * LimbBase + v[3]
        c2 == (c3 % 10) * LimbBase + v[2]
        c1 == (c2 % 10) * LimbBase + v[1]
    IN  [quot |-> <<c1 \div 10, c2 \div 10, c3 \div 10, c4 \div 10>>,
         rem |-> c1 % 10]

\* The decimal digits of the unsigned value of v, no leading zeros.
RECURSIVE FormatMagnitude(_)
FormatMagnitude(v) ==
    LET d == DivRemTen(v)
    IN  IF d.quot = I64Zero THEN <<DigitChars[d.rem + 1]>>
        ELSE Append(FormatMagnitude(d.quot), DigitChars[d.rem + 1])

\* format!("{}", n) for an i64 n: decimal, "-" before a negative number, no
\* "+" and no leading zeros.
FormatI64(v) ==
    IF SignBit(v) = 1 THEN <<"-">> \o FormatMagnitude(Negate(v))
    ELSE FormatMagnitude(v)

\* format!("r.{}.{}.mca", r.x, r.z)
RegionFileName(k) ==
    <<"r", ".">> \o FormatI64(k[1]) \o <<".">> \o FormatI64(k[2])
        \o <<".", "m", "c", "a">>

\* fname_str.split('.').collect(): the pieces between the dots, empty ones kept.
RECURSIVE SplitDots(_)
SplitDots(name) ==
    IF name = <<>> THEN << <<>> >>
    ELSE LET rest == SplitDots(Tail(name))
         IN  IF Head(name) = "." THEN << <<>> >> \o rest
             ELSE << <<Head(name)>> \o Head(rest) >> \o Tail(rest)

\* One step of from_str_radix on the magnitude m of the number read so far:
\* checked_mul(10), then checked_add(d) (checked_sub(d) for a negative
\* number).  The step fails when the result leaves i64: a magnitude above
\* i64::MAX, or above 2^63 for a negative number.
MulTenAdd(m, d, neg) ==
    LET c1 == m[1] * 10 + d
        c2 == m[2] * 10 + (c1 \div LimbBase)
        c3 == m[3] * 10 + (c2 \div LimbBase)
        c4 == m[4] * 10 + (c3 \div LimbBase)
        r  == <<c1 % LimbBase, c2 % LimbBase, c3 % LimbBase, c4 % LimbBase>>
    IN  [ok |-> c4 < LimbBase /\ (SignBit(r) = 0 \/ (neg /\ r = I64Min)),
         val |-> r]

\* The magnitude of a sequence of decimal digits, digit by digit; not ok
\* once a step has overflowed.
RECURSIVE DigitsValue(_, _)
DigitsValue(ds, neg) ==
    IF ds = <<>> THEN [ok |-> TRUE, val |-> I64Zero]
    ELSE LET front == DigitsValue(SubSeq(ds, 1, Len(ds) - 1), neg)
         IN  IF front.ok THEN MulTenAdd(front.val, DigitValue(ds[Len(ds)]), neg)
             ELSE front

AllDigits(ds) == ds # <<>> /\ \A i \in 1 .. Len(ds) : ds[i] \in DigitSet

\* i64::from_str_radix(s, 10): an optional "+" or "-", then one or more
\* digits; Err for an empty string, a lone sign, any other character, or a
\* number outside i64.
ParseI64(str) ==
    LET neg    == str # <<>> /\ Head(str) = "-"
        digits == IF str # <<>> /\ Head(str) \in {"+", "-"} THEN Tail(str) ELSE str
    IN  IF AllDigits(digits)
        THEN LET m == DigitsValue(digits, neg)
             IN  IF m.ok THEN [ok |-> TRUE, val |-> IF neg THEN Negate(m.val) ELSE m.val]
                 ELSE [ok |-> FALSE, val |-> I64Zero]
        ELSE [ok |-> FALSE, val |-> I64Zero]

\* A loop body that does not look at the first component.
ParseRegionNameAnyTag(name) ==
    LET components == SplitDots(name)
    IN  IF Len(components) = 4 /\ components[4] = <<"m", "c", "a">>
        THEN LET px == ParseI64(components[2])
                 pz == ParseI64(components[3])
             IN  IF px.ok /\ pz.ok THEN << <<px.val, pz.val>> >>
                 ELSE <<>>
        ELSE <<>>

\* The body of the loop of Regionset::new for one directory entry: the
\* coordinates pushed onto regions (none or one).
ParseRegionName(name) ==
    LET components == SplitDots(name)
    IN  IF Len(components) = 4 /\ components[1] = <<"r">>
            /\ components[4] = <<"m", "c", "a">>
        THEN LET px == ParseI64(components[2])
                 pz == ParseI64(components[3])
             IN  IF px.ok /\ pz.ok THEN << <<px.val, pz.val>> >>
                 ELSE <<>>
        ELSE <<>>

\* The regions vector Regionset::new builds from a directory listing.
RECURSIVE DiscoverRegions(_)
DiscoverRegions(listing) ==
    IF listing = <<>> THEN <<>>
    ELSE ParseRegionName(Head(listing)) \o DiscoverRegions(Tail(listing))

Range(seq) == {seq[i] : i \in 1 .. Len(seq)}

\* An existence check that lets every region through.
RegionsContainAny(rs, k) == TRUE

\* self.regions.contains(&(r.x, r.z))
RegionsContain(rs, k) == k \in Range(rs)

(***************************************************************************)
(* world.rs: the handle cache, an lru_time_cache::LruCache with a capacity *)
(* and no expiry.  It is held as the sequence of its keys, least recently  *)
(* used first; each element stands for one open RegionFile.                *)
(***************************************************************************)

\* world.rs:125  LruCache::with_capacity(16)
CacheCapacity == 16

Without(seq, k) == SelectSeq(seq, LAMBDA e : e # k)

\* A lookup that never finds the key.
CacheHoldsNothing(c, k) == FALSE

\* contains_key(&key), by which entry() tells a hit from a miss.
CacheHolds(c, k) == k \in Range(c)

\* A hit that leaves the order of use as it was.
CacheTouchUnordered(c, k) == c

\* A hit (Entry::Occupied, reached through get_mut): the key becomes the
\* most recently used.
CacheTouch(c, k) == Append(Without(c, k), k)

\* A miss (Entry::Vacant, insert): while the cache is full the least
\* recently used entry is removed, then the key is added as the most
\* recently used.
CacheInsert(c, k) ==
    IF Len(c) >= CacheCapacity THEN Append(Tail(c), k) ELSE Append(c, k)

\* The entry a full cache drops on a miss: none or one key.
CacheEvicted(c, k) == IF Len(c) >= CacheCapacity THEN <<Head(c)>> ELSE <<>>

(***************************************************************************)
(* State.                                                                  *)
(***************************************************************************)
VARIABLES
    \* Coordinate algebra: one chain of conversions on one coordinate.
    tyEl, tyMid, tyEnd, \* the type parameters: El inside Mid inside End
    given,              \* the input: a whole Coord<El,End>, or the two parts
    whole,              \* the current Coord<El,End>
    partA, partB,       \* the current Coord<El,Mid> and Coord<Mid,End>
    steps,              \* the conversions applied so far, in order
    sizeLog,            \* the levels size() has been called on
    panic,              \* "none", or "infinity" once size() panicked
    overflow,           \* an i64 addition of join has overflowed
    \* One Regionset and the directory it was built from.
    dirFiles,           \* the names read_dir yields for region_dir, in order
    regions,            \* Regionset.regions: the discovered (x, z) pairs
    cache,              \* Regionset.cache: its keys, least recently used first
    held,               \* the handle a running get_chunk_mtime holds (its key)
    pc,                 \* "idle", "mtime_open" (inside get_chunk_mtime), "panicked"
    call,               \* the last call: its operation and chunk coordinate
    result,             \* what the last call returned
    opens,              \* the fs.open calls the last call has made
    offset,             \* the (x, z) the last call passed to the RegionFile
    evicted,            \* the key the last call evicted from the cache
    useOrder,           \* the keys get_chunk has used, least recent first
    scanned,            \* the caller: the region files it has visited
    \* One call of World::new and the world directory it reads.
    rootDir,            \* the entries read_dir yields for world_dir, in order
    wpc,                \* "start", "entries" (inside the loop), "ok", "err"
    widx,               \* the entries of rootDir the loop has taken
    regionsets,         \* the regionsets vector built so far
    worldErr,           \* "none", or the step whose error World::new returned
    \* One call of Regionset::new, on the directory dirFiles lists.
    npc,                \* "idle", "start", "entries" (inside the loop), "ok", "err"
    nidx                \* the entries of dirFiles the loop has taken

coordVars ==
    <<tyEl, tyMid, tyEnd, given, whole, partA, partB, steps, sizeLog, panic, overflow>>

regVars ==
    <<dirFiles, regions, cache, held, pc, call, result, opens, offset, evicted,
      useOrder, scanned>>

worldVars == <<rootDir, wpc, widx, regionsets, worldErr>>

newVars == <<npc, nidx>>

vars == <<coordVars, regVars, worldVars, newVars>>

(***************************************************************************)
(* Inputs of the coordinate algebra.                                       *)
(***************************************************************************)

\* Coordinates -MaxCoord .. MaxCoord are tried on the x and y axes.
MaxCoord == 2

\* Further per-axis values: beyond one chunk (16), one chunk column (256)
\* and one region of blocks (512) in both directions.
SampleInts == {-1000, -33, 17, 300}

AxisVals ==
    {FromInt(n) : n \in (-MaxCoord .. MaxCoord) \cup SampleInts} \cup {I64Min, I64Max}

\* The z axis has the widths of the x axis at every level; fewer values of
\* it are combined with those of x and y.
ZVals == {FromInt(-1), FromInt(17), I64Min}

IntCoord(a, b, c) == Coord(FromInt(a), FromInt(b), FromInt(c))

\* The coordinates of the tests and doc examples of coords.rs.
ExampleCoords ==
    {IntCoord(45, 64, -20), IntCoord(-1, 63, -2), IntCoord(30, 4, -3),
     IntCoord(70, 16, -30), IntCoord(5, 68, 0), IntCoord(31, 79, 31)}

WholeCoords ==
    ExampleCoords \cup {Coord(a, b, c) : a \in AxisVals, b \in AxisVals, c \in ZVals}

\* Inner parts: inside and outside the range of an inner coordinate.
InnerCoords ==
    {IntCoord(13, 64, 12)} \cup
    {Coord(a, b, c) : a \in {FromInt(-1), FromInt(0), FromInt(15), FromInt(16), I64Max},
                      b \in {FromInt(0), FromInt(15), FromInt(16)},
                      c \in {FromInt(0), FromInt(16)}}

\* Outer parts: some whose shift loses no bit, some whose shift does.
OuterCoords ==
    {IntCoord(2, 0, -2)} \cup
    {Coord(a, b, c) : a \in {FromInt(-2), FromInt(0), FromInt(1), I64Max},
                      b \in {FromInt(0), FromInt(1)},
                      c \in {FromInt(-2), I64Max}}

\* The well-typed instantiations: El: Contained<Mid>, Mid: Contained<End>,
\* El: Contained<End>, every one a System.
TypeTriples ==
    {t \in LevelSet \X LevelSet \X LevelSet :
        Contained(t[1], t[2]) /\ Contained(t[2], t[3]) /\ Contained(t[1], t[3])}

\* No Regionset: the state of the Regionset variables while only the
\* coordinate algebra runs.
RegIdle ==
    /\ dirFiles = <<>> /\ regions = <<>> /\ cache = <<>> /\ held = <<>>
    /\ pc = "idle" /\ call = [op |-> "none", xz |-> ZeroCoord]
    /\ result = "none" /\ opens = 0 /\ offset = <<>> /\ evicted = <<>>
    /\ useOrder = <<>> /\ scanned = 0

\* No Regionset::new call in progress.
NewIdle == npc = "idle" /\ nidx = 0

\* No World::new call: the state of its variables while other parts run.
WorldIdle ==
    /\ rootDir = <<>> /\ wpc = "start" /\ widx = 0 /\ regionsets = <<>>
    /\ worldErr = "none"

CoordStart ==
    /\ \E t \in TypeTriples : tyEl = t[1] /\ tyMid = t[2] /\ tyEnd = t[3]
    /\ \/ \E c \in WholeCoords :
            /\ given = [kind |-> "whole", c |-> c, a |-> ZeroCoord, b |-> ZeroCoord]
            /\ whole = c /\ partA = ZeroCoord /\ partB = ZeroCoord
       \/ \E a \in InnerCoords, b \in OuterCoords :
            /\ given = [kind |-> "parts", c |-> ZeroCoord, a |-> a, b |-> b]
            /\ whole = ZeroCoord /\ partA = a /\ partB = b
    /\ steps = <<>>
    /\ sizeLog = {}
    /\ panic = "none"
    /\ overflow = FALSE

CoordInit == CoordStart /\ RegIdle /\ WorldIdle /\ NewIdle

\* The size() calls of a conversion that evaluates size() on q[1], then q[2].
SizeLogOf(q) ==
    SizeCalls(q[1]) \cup (IF SizePanics(q[1]) THEN {} ELSE SizeCalls(q[2]))

\* whole.split::<Mid>()
CoordSplit ==
    /\ panic = "none"
    /\ \/ steps = <<>> /\ given.kind = "whole"
       \/ steps = <<"join">>
    /\ steps' = Append(steps, "split")
    /\ LET q == SplitSizeArgs(tyEl, tyMid, tyEnd)
       IN  /\ sizeLog' = sizeLog \cup SizeLogOf(q)
           /\ IF SizePanics(q[1]) \/ SizePanics(q[2])
              THEN panic' = "infinity" /\ UNCHANGED <<partA, partB>>
              ELSE LET r == Split(whole, tyEl, tyMid, tyEnd)
                   IN  partA' = r[1] /\ partB' = r[2] /\ panic' = "none"
    /\ UNCHANGED <<tyEl, tyMid, tyEnd, given, whole, overflow>>
    /\ UNCHANGED <<regVars, worldVars, newVars>>

\* partA.join(partB).  An overflowing addition panics in a build with
\* overflow checks and wraps in one without: overflow records that it
\* happened, and the state goes on with the wrapped sum.
CoordJoin ==
    /\ panic = "none"
    /\ \/ steps = <<>> /\ given.kind = "parts"
       \/ steps = <<"split">>
    /\ steps' = Append(steps, "join")
    /\ LET q == JoinSizeArgs(tyEl, tyMid, tyEnd)
       IN  /\ sizeLog' = sizeLog \cup SizeLogOf(q)
           /\ IF SizePanics(q[1]) \/ SizePanics(q[2])
              THEN panic' = "infinity" /\ UNCHANGED <<whole, overflow>>
              ELSE /\ whole' = Join(partA, partB, tyEl, tyMid, tyEnd)
                   /\ overflow' = (overflow \/ JoinOverflows(partA, partB, tyEl, tyMid, tyEnd))
                   /\ panic' = "none"
    /\ UNCHANGED <<tyEl, tyMid, tyEnd, given, partA, partB>>
    /\ UNCHANGED <<regVars, worldVars, newVars>>

CoordNext == CoordSplit \/ CoordJoin

SpecCoord == CoordInit /\ [][CoordNext]_vars

(***************************************************************************)
(* world.rs: one Regionset, its directory and its caller.                  *)
(***************************************************************************)

\* The directory holds this many region files more than the cache holds
\* handles.
ExtraRegions == 1

NumRegions == CacheCapacity + ExtraRegions

\* The caller comes back, any number of times, to the first HotRegions
\* region files it has visited.
HotRegions == 1

\* Entries of the directory that are no region file, and one whose numbers
\* are not written the way format! writes them.
OddNames ==
    << <<"f", "o", "o", ".", "t", "x", "t">>,
       <<"r", ".", "3", ".", "m", "c", "a">>,
       <<"r", ".", "x", ".", "5", ".", "m", "c", "a">>,
       <<"r", ".", "+", "1", ".", "-", "0", "1", ".", "m", "c", "a">> >>

\* The listing of region_dir: r.0.0.mca, r.1.0.mca, ..., r.-1.-1.mca and the
\* odd names.
DirListing ==
    [i \in 1 .. NumRegions |-> RegionFileName(<<FromInt(i - 1), FromInt(0)>>)]
        \o <<RegionFileName(<<FromInt(-1), FromInt(-1)>>)>> \o OddNames

\* The chunk the caller asks for in the i-th region file: chunk (4, 0, 8)
\* of region (i - 1, 0).
ScanInputs == [i \in 1 .. NumRegions |-> IntCoord(32 * (i - 1) + 4, 0, 8)]

\* Chunks of regions (-1, 0) and (0, 1), which have no file; of region
\* (1, -1), listed as r.+1.-01.mca; a chunk at the i64 extremes; and the
\* chunk (4, 8) of region (0, 0) at another y.
OtherInputs ==
    {IntCoord(-1, 0, 0), IntCoord(12, 0, 40), IntCoord(36, 0, -24),
     Coord(I64Min, I64Zero, I64Max), IntCoord(4, 5, 8)}

\* The chunks get_chunk_mtime is asked for: the two of its test, in region
\* (0, 0), one of a region without a file, one of region (1, -1) and one
\* of region (-1, -1).
MtimeInputs ==
    {IntCoord(4, 0, 8), IntCoord(12, 0, 3), IntCoord(-1, 0, 0), IntCoord(36, 0, -24),
     IntCoord(-1, -3, -31)}

ChunkInputs == Range(ScanInputs) \cup OtherInputs \cup MtimeInputs

\* xz.split::<coords::Region>() for each chunk of the model, computed once.
ChunkSplits == [xz \in ChunkInputs |-> Split(xz, "Chunk", "Region", "World")]

\* (r.x, r.z): the key of the region a chunk lies in.
RegionKey(xz) == <<ChunkSplits[xz][2].x, ChunkSplits[xz][2].z>>

\* v as u8
AsU8(v) == v[1] % 256

\* An offset with its two components in the other order.
ChunkOffsetSwapped(xz) == <<AsU8(ChunkSplits[xz][1].z), AsU8(ChunkSplits[xz][1].x)>>

\* (c.x as u8, c.z as u8): the offset handed to the RegionFile.
ChunkOffset(xz) == <<AsU8(ChunkSplits[xz][1].x), AsU8(ChunkSplits[xz][1].z)>>

\* What self.fs.open can return for a name: an existing file can still fail
\* to open, a missing one cannot be opened.
OpenOutcomes(name) == IF name \in Range(dirFiles) THEN {TRUE, FALSE} ELSE {FALSE}

\* Regionset::new on the directory, having returned Ok.
RegStart ==
    /\ dirFiles = DirListing
    /\ regions = DiscoverRegions(DirListing)
    /\ cache = <<>>
    /\ held = <<>>
    /\ pc = "idle"
    /\ call = [op |-> "none", xz |-> ZeroCoord]
    /\ result = "none" /\ opens = 0 /\ offset = <<>> /\ evicted = <<>>
    /\ useOrder = <<>> /\ scanned = 0

\* No coordinate conversion of its own: the state of the coordinate
\* variables while the Regionset runs.
CoordIdle ==
    /\ tyEl = "Chunk" /\ tyMid = "Region" /\ tyEnd = "World"
    /\ given = [kind |-> "none", c |-> ZeroCoord, a |-> ZeroCoord, b |-> ZeroCoord]
    /\ whole = ZeroCoord /\ partA = ZeroCoord /\ partB = ZeroCoord
    /\ steps = <<>> /\ sizeLog = {} /\ panic = "none" /\ overflow = FALSE

Init == RegStart /\ CoordIdle /\ WorldIdle /\ NewIdle

\* get_chunk, lines 142-153, for a region that passed the existence check:
\* the cache entry is reused, or the file is opened and parsed (unwrap
\* panics when either fails) and inserted; then load_chunk decides between
\* Some and None.
GetChunkCached(xz, k) ==
    IF CacheHolds(cache, k)
    THEN /\ cache' = CacheTouch(cache, k)
         /\ useOrder' = Append(Without(useOrder, k), k)
         /\ evicted' = <<>>
         /\ opens' = 0
         /\ offset' = ChunkOffset(xz)
         /\ \E loaded \in BOOLEAN : result' = IF loaded THEN "Some" ELSE "None"
         /\ UNCHANGED pc
    ELSE \E opened \in OpenOutcomes(RegionFileName(k)), parsed \in BOOLEAN :
            /\ opens' = 1
            /\ IF opened /\ parsed
               THEN /\ cache' = CacheInsert(cache, k)
                    /\ evicted' = CacheEvicted(cache, k)
                    /\ useOrder' = Append(Without(useOrder, k), k)
                    /\ offset' = ChunkOffset(xz)
                    /\ \E loaded \in BOOLEAN :
                          result' = IF loaded THEN "Some" ELSE "None"
                    /\ UNCHANGED pc
               ELSE /\ pc' = "panicked"
                    /\ result' = "panic"
                    /\ evicted' = <<>>
                    /\ offset' = <<>>
                    /\ UNCHANGED <<cache, useOrder>>

\* self.get_chunk(xz)
GetChunk(xz) ==
    /\ pc = "idle"
    /\ call' = [op |-> "get_chunk", xz |-> xz]
    /\ IF ~RegionsContain(regions, RegionKey(xz))
       THEN /\ result' = "None"
            /\ opens' = 0
            /\ offset' = <<>>
            /\ evicted' = <<>>
            /\ UNCHANGED <<cache, useOrder, pc>>
       ELSE GetChunkCached(xz, RegionKey(xz))
    /\ UNCHANGED <<dirFiles, regions, held>>

\* The caller asks for a chunk of the next region file it has not visited.
GetChunkNext ==
    /\ scanned < NumRegions
    /\ GetChunk(ScanInputs[scanned + 1])
    /\ scanned' = scanned + 1
    /\ UNCHANGED <<coordVars, worldVars, newVars>>

\* The caller asks again for a chunk of a region file it has visited.
GetChunkAgain ==
    /\ \E i \in 1 .. HotRegions : i <= scanned /\ GetChunk(ScanInputs[i])
    /\ UNCHANGED scanned
    /\ UNCHANGED <<coordVars, worldVars, newVars>>

\* The caller asks for a chunk outside the region files it scans.
GetChunkOther ==
    /\ \E xz \in OtherInputs : GetChunk(xz)
    /\ UNCHANGED scanned
    /\ UNCHANGED <<coordVars, worldVars, newVars>>

\* A get_chunk_mtime that goes through the handle cache: a cached handle is
\* reused and marked used, and only a miss opens the file.
GetChunkMtimeThroughCache(xz) ==
    /\ pc = "idle"
    /\ call' = [op |-> "get_chunk_mtime", xz |-> xz]
    /\ evicted' = <<>>
    /\ offset' = <<>>
    /\ IF ~RegionsContain(regions, RegionKey(xz))
       THEN /\ result' = "None"
            /\ opens' = 0
            /\ UNCHANGED <<held, pc, cache>>
       ELSE IF CacheHolds(cache, RegionKey(xz))
       THEN /\ cache' = CacheTouch(cache, RegionKey(xz))
            /\ opens' = 0
            /\ \E stamped \in BOOLEAN : result' = IF stamped THEN "Some" ELSE "None"
            /\ UNCHANGED <<held, pc>>
       ELSE \E opened \in OpenOutcomes(RegionFileName(RegionKey(xz))) :
               /\ opens' = 1
               /\ IF opened
                  THEN held' = <<RegionKey(xz)>> /\ pc' = "mtime_open"
                           /\ result' = "pending"
                  ELSE result' = "None" /\ UNCHANGED <<held, pc>>
               /\ UNCHANGED cache
    /\ UNCHANGED <<dirFiles, regions, useOrder, scanned>>
    /\ UNCHANGED <<coordVars, worldVars, newVars>>

\* self.get_chunk_mtime(xz) up to and including self.fs.open(f): it returns
\* None for an unknown region or a failed open, and otherwise holds the
\* opened file.
GetChunkMtimeOpen(xz) ==
    /\ pc = "idle"
    /\ call' = [op |-> "get_chunk_mtime", xz |-> xz]
    /\ evicted' = <<>>
    /\ offset' = <<>>
    /\ IF ~RegionsContain(regions, RegionKey(xz))
       THEN /\ result' = "None"
            /\ opens' = 0
            /\ UNCHANGED <<held, pc>>
       ELSE \E opened \in OpenOutcomes(RegionFileName(RegionKey(xz))) :
               /\ opens' = 1
               /\ IF opened
                  THEN held' = <<RegionKey(xz)>> /\ pc' = "mtime_open"
                           /\ result' = "pending"
                  ELSE result' = "None" /\ UNCHANGED <<held, pc>>
    /\ UNCHANGED <<dirFiles, regions, cache, useOrder, scanned>>
    /\ UNCHANGED <<coordVars, worldVars, newVars>>

GetChunkMtimeBegin == \E xz \in MtimeInputs : GetChunkMtimeOpen(xz)

\* The rest of get_chunk_mtime: RegionFile::new(f), then the timestamp of
\* the chunk or None; the file is dropped as the call returns.
GetChunkMtimeFinish ==
    /\ pc = "mtime_open"
    /\ \E parsed \in BOOLEAN, stamped \in BOOLEAN :
          /\ result' = IF parsed /\ stamped THEN "Some" ELSE "None"
          /\ offset' = IF parsed THEN ChunkOffset(call.xz) ELSE <<>>
    /\ held' = <<>>
    /\ pc' = "idle"
    /\ UNCHANGED <<dirFiles, regions, cache, call, opens, evicted, useOrder,
                   scanned>>
    /\ UNCHANGED <<coordVars, worldVars, newVars>>

Next ==
    \/ GetChunkNext
    \/ GetChunkAgain
    \/ GetChunkOther
    \/ GetChunkMtimeBegin
    \/ GetChunkMtimeFinish

Spec == Init /\ [][Next]_vars

(***************************************************************************)
(* world.rs: World::new over one world directory.  An entry of the world   *)
(* directory is a record of its name, whether it is a directory, and the   *)
(* names its own read_dir yields.                                          *)
(***************************************************************************)

LastDot(name) ==
    IF \E i \in 1 .. Len(name) : name[i] = "."
    THEN CHOOSE i \in 1 .. Len(name) :
            name[i] = "." /\ \A j \in (i + 1) .. Len(name) : name[j] # "."
    ELSE 0

\* e.path().extension(), as std::path::Path::extension: the part of the
\* file name after its last dot; None (the empty sequence here) when the
\* name has no dot or only a leading one, else Some (a one-element sequence).
Extension(name) ==
    IF LastDot(name) <= 1 THEN <<>>
    ELSE <<SubSeq(name, LastDot(name) + 1, Len(name))>>

\* An `all` in place of the `any` of line 45.
AllMca(listing) ==
    \A i \in 1 .. Len(listing) : Extension(listing[i]) = << <<"m", "c", "a">> >>

\* entry.read_dir().any(|e| e.path().extension() == Some("mca"))
AnyMca(listing) ==
    \E i \in 1 .. Len(listing) : Extension(listing[i]) = << <<"m", "c", "a">> >>

\* The Regionset that Regionset::new builds for a directory entry.
RegionsetOf(entry) ==
    [region_dir |-> entry.name, regions |-> DiscoverRegions(entry.listing)]

File(name) == [name |-> name, isDir |-> FALSE, listing |-> <<>>]

Dir(name, listing) == [name |-> name, isDir |-> TRUE, listing |-> listing]

\* Entries a world directory is made of: the level.dat file, another file
\* with the name of a region file, and directories: of region files, of
\* region files among other files, of .mca names that are no region file
\* names, of no .mca name, and an empty one.
EntrySamples ==
    {File("level.dat"),
     File("r.0.0.mca"),
     Dir("region", <<RegionFileName(<<FromInt(0), FromInt(0)>>),
                     RegionFileName(<<FromInt(-1), FromInt(0)>>)>>),
     Dir("DIM1", << <<"f", "o", "o", ".", "t", "x", "t">>,
                    RegionFileName(<<FromInt(0), FromInt(0)>>)>>),
     Dir("DIM-1", << <<"r", ".", "x", ".", "5", ".", "m", "c", "a">>,
                     <<"r", ".", "3", ".", "m", "c", "a">> >>),
     Dir("data", << <<"f", "o", "o", ".", "m", "c", "a">> >>),
     Dir("players", << <<"f", "o", "o", ".", "t", "x", "t">>,
                       <<"m", "c", "a">>,
                       <<"r", ".", "0", ".", "0", ".", "m", "c", "a", ".", "b", "a", "k">> >>),
     Dir("empty", <<>>)}

\* The world directory has up to MaxEntries entries.
MaxEntries == 3

\* The listings of a world directory: entries with distinct names, in any
\* order.
RootListings ==
    {l \in UNION {[1 .. n -> EntrySamples] : n \in 0 .. MaxEntries} :
        \A i, j \in 1 .. Len(l) : i # j => l[i] # l[j]}

WorldStart ==
    /\ rootDir \in RootListings
    /\ wpc = "start" /\ widx = 0 /\ regionsets = <<>> /\ worldErr = "none"

WorldInit == WorldStart /\ RegIdle /\ CoordIdle /\ NewIdle

\* How fs.open(level_dat), GzDecoder::new and Tag::parse can end: the open
\* fails when the listing has no level.dat; a file that is there may still
\* fail to open, to decompress or to parse.
LevelDatOutcomes ==
    IF \E i \in 1 .. Len(rootDir) : rootDir[i] = File("level.dat")
    THEN {"ok", "open", "gzip", "parse"}
    ELSE {"open"}

WorldFail(step) ==
    /\ wpc' = "err"
    /\ worldErr' = step
    /\ UNCHANGED <<rootDir, widx, regionsets>>

\* World::new, lines 30-40: the existence check of world_dir, level.dat,
\* and the read_dir of world_dir the loop runs over.
WorldNewOpen ==
    /\ wpc = "start"
    /\ \E exists \in BOOLEAN, dat \in LevelDatOutcomes, listed \in BOOLEAN :
          IF ~exists THEN WorldFail("exists")
          ELSE IF dat # "ok" THEN WorldFail(dat)
          ELSE IF ~listed THEN WorldFail("read_dir")
          ELSE /\ wpc' = "entries"
               /\ UNCHANGED <<rootDir, widx, regionsets, worldErr>>
    /\ UNCHANGED <<coordVars, regVars, newVars>>

\* A loop that notes a failed Regionset::new and goes on to the next entry.
WorldNewEntrySkipping ==
    /\ wpc = "entries"
    /\ widx < Len(rootDir)
    /\ LET entry == rootDir[widx + 1]
       IN  IF ~entry.isDir
           THEN /\ widx' = widx + 1
                /\ UNCHANGED <<rootDir, wpc, regionsets, worldErr>>
           ELSE \E listed \in BOOLEAN, built \in BOOLEAN :
                   IF ~listed THEN WorldFail("entry.read_dir")
                   ELSE IF ~AnyMca(entry.listing)
                   THEN /\ widx' = widx + 1
                        /\ UNCHANGED <<rootDir, wpc, regionsets, worldErr>>
                   ELSE IF ~built
                   THEN /\ worldErr' = "Regionset::new"
                        /\ widx' = widx + 1
                        /\ UNCHANGED <<rootDir, wpc, regionsets>>
                   ELSE /\ regionsets' = Append(regionsets, RegionsetOf(entry))
                        /\ widx' = widx + 1
                        /\ UNCHANGED <<rootDir, wpc, worldErr>>
    /\ UNCHANGED <<coordVars, regVars, newVars>>

\* One turn of the loop of lines 40-52 on the next entry: a directory is
\* listed (try!), and one with an .mca entry is built into a Regionset
\* (try!) and pushed.
WorldNewEntry ==
    /\ wpc = "entries"
    /\ widx < Len(rootDir)
    /\ LET entry == rootDir[widx + 1]
       IN  IF ~entry.isDir
           THEN /\ widx' = widx + 1
                /\ UNCHANGED <<rootDir, wpc, regionsets, worldErr>>
           ELSE \E listed \in BOOLEAN, built \in BOOLEAN :
                   IF ~listed THEN WorldFail("entry.read_dir")
                   ELSE IF ~AnyMca(entry.listing)
                   THEN /\ widx' = widx + 1
                        /\ UNCHANGED <<rootDir, wpc, regionsets, worldErr>>
                   ELSE IF ~built THEN WorldFail("Regionset::new")
                   ELSE /\ regionsets' = Append(regionsets, RegionsetOf(entry))
                        /\ widx' = widx + 1
                        /\ UNCHANGED <<rootDir, wpc, worldErr>>
    /\ UNCHANGED <<coordVars, regVars, newVars>>

\* Lines 54-59: the loop is over, Ok(World { .. }) is returned.
WorldNewReturn ==
    /\ wpc = "entries"
    /\ widx = Len(rootDir)
    /\ wpc' = "ok"
    /\ UNCHANGED <<rootDir, widx, regionsets, worldErr>>
    /\ UNCHANGED <<coordVars, regVars, newVars>>

WorldNext ==
    \/ WorldNewOpen
    \/ WorldNewEntry
    \/ WorldNewReturn

SpecWorld == WorldInit /\ [][WorldNext]_vars

(***************************************************************************)
(* world.rs: Regionset::new over one directory, entry by entry.            *)
(***************************************************************************)

\* Names a region directory can hold: region files, also at the ends of
\* i64 and with numbers written with a "+" or leading zeros; numbers one
\* beyond i64; names with a wrong tag, a wrong extension, a missing, empty
\* or non-numeric component, a lone sign, or a fifth component.
NameSamples ==
    {RegionFileName(<<FromInt(0), FromInt(0)>>),
     RegionFileName(<<FromInt(1), FromInt(-1)>>),
     RegionFileName(<<I64Min, FromInt(0)>>),
     RegionFileName(<<FromInt(0), I64Max>>),
     <<"r", ".", "+", "1", ".", "-", "0", "1", ".", "m", "c", "a">>,
     <<"r", ".", "0", "0", ".", "-", "0", ".", "m", "c", "a">>,
     <<"r", ".", "9", "2", "2", "3", "3", "7", "2", "0", "3", "6", "8", "5", "4",
       "7", "7", "5", "8", "0", "8", ".", "0", ".", "m", "c", "a">>,
     <<"r", ".", "0", ".", "-", "9", "2", "2", "3", "3", "7", "2", "0", "3", "6",
       "8", "5", "4", "7", "7", "5", "8", "0", "9", ".", "m", "c", "a">>,
     <<"f", "o", "o", ".", "t", "x", "t">>,
     <<"r", ".", "3", ".", "m", "c", "a">>,
     <<"r", ".", "x", ".", "5", ".", "m", "c", "a">>,
     <<"x", ".", "0", ".", "0", ".", "m", "c", "a">>,
     <<"r", ".", "0", ".", "0", ".", "m", "c", "r">>,
     <<"r", ".", ".", "0", ".", "m", "c", "a">>,
     <<"r", ".", "-", ".", "0", ".", "m", "c", "a">>,
     <<"r", ".", "0", ".", "0", ".", "m", "c", "a", ".", "b", "a", "k">>}

\* The directory has up to MaxNames entries.
MaxNames == 2

\* The listings of the directory: distinct names, in any order.
NewListings ==
    {l \in UNION {[1 .. n -> NameSamples] : n \in 0 .. MaxNames} :
        \A i, j \in 1 .. Len(l) : i # j => l[i] # l[j]}

\* Regionset::new is called on the directory.
NewStart ==
    /\ dirFiles \in NewListings
    /\ regions = <<>> /\ cache = <<>> /\ held = <<>>
    /\ pc = "idle" /\ call = [op |-> "none", xz |-> ZeroCoord]
    /\ result = "none" /\ opens = 0 /\ offset = <<>> /\ evicted = <<>>
    /\ useOrder = <<>> /\ scanned = 0
    /\ npc = "start" /\ nidx = 0

NewInit == NewStart /\ CoordIdle /\ WorldIdle

\* Lines 103-107: fs.exists(region_dir), then fs.read_dir(region_dir);
\* either can fail, and the error is returned.
RegionsetNewOpen ==
    /\ npc = "start"
    /\ \E exists \in BOOLEAN, listed \in BOOLEAN :
          npc' = IF exists /\ listed THEN "entries" ELSE "err"
    /\ UNCHANGED <<nidx, regVars, coordVars, worldVars>>

\* One turn of the loop of lines 107-118 on the next entry.
RegionsetNewEntry ==
    /\ npc = "entries"
    /\ nidx < Len(dirFiles)
    /\ regions' = regions \o ParseRegionName(dirFiles[nidx + 1])
    /\ nidx' = nidx + 1
    /\ UNCHANGED <<dirFiles, cache, held, pc, call, result, opens, offset, evicted,
                   useOrder, scanned>>
    /\ UNCHANGED <<npc, coordVars, worldVars>>

\* Lines 121-126: the loop is over, Ok(Regionset { .. }) is returned with
\* an empty cache.
RegionsetNewReturn ==
    /\ npc = "entries"
    /\ nidx = Len(dirFiles)
    /\ npc' = "ok"
    /\ UNCHANGED <<nidx, regVars, coordVars, worldVars>>

NewNext ==
    \/ RegionsetNewOpen
    \/ RegionsetNewEntry
    \/ RegionsetNewReturn

SpecNew == NewInit /\ [][NewNext]_vars

(***************************************************************************)
(* Properties of the Regionset, checked under Spec.                        *)
(***************************************************************************)

Count(seq, k) == Len(SelectSeq(seq, LAMBDA e : e = k))

Pos(seq, k) == CHOOSE i \in 1 .. Len(seq) : seq[i] = k

\* The last call asked for a chunk of a region that is not in regions.
LastCallUnknownRegion ==
    call.op # "none" /\ RegionKey(call.xz) \notin Range(regions)

\* C5: a get_chunk or get_chunk_mtime call (for the chunk xz the step
\* records as its argument) whose region coordinate is not in the
\* discovered set returns None, makes no fs.open call and leaves the handle
\* cache as it was, whatever the state of the Regionset.
C5_UnknownRegionNoOpen ==
    [][LET xz == call'.xz
       IN  (call'.op # "none" /\ RegionKey(xz) \notin Range(regions)
               /\ (GetChunk(xz) \/ GetChunkMtimeOpen(xz)))
             => (result' = "None" /\ opens' = 0 /\ cache' = cache /\ pc' = "idle")]_vars

\* get_chunk has returned None for an unknown region while the cache held
\* handles.
C5_Witness ==
    /\ call.op = "get_chunk" /\ LastCallUnknownRegion
    /\ result = "None" /\ opens = 0 /\ cache # <<>>

\* C6: the cache never holds more than 16 handles, and an entry that
\* leaves the cache is the one least recently used by get_chunk (hits and
\* inserts both counting as use) among those it held.
C6_CacheBoundLRU ==
    [][/\ Len(cache') <= 16
       /\ \A e \in Range(cache) \ Range(cache') :
             /\ evicted' = <<e>>
             /\ \A k \in Range(cache) : Pos(useOrder, e) <= Pos(useOrder, k)
       /\ evicted' # <<>> => evicted'[1] \in Range(cache) \ Range(cache')]_vars

\* A full cache has evicted an entry other than the first region visited,
\* which a later hit had kept in use.
C6_Witness ==
    /\ evicted # <<>> /\ Len(cache) = CacheCapacity
    /\ evicted[1] # RegionKey(ScanInputs[1])
    /\ RegionKey(ScanInputs[1]) \in Range(cache)
    /\ cache[Len(cache)] = RegionKey(ScanInputs[NumRegions])

\* C7 as claimed: at every point at most one live handle exists for any
\* container coordinate, the handles being those of the cache and the one
\* a running get_chunk_mtime holds.
C7_OneLiveHandle ==
    \A k \in Range(cache \o held) : Count(cache \o held, k) <= 1

\* C7 as amended: the cache holds at most one handle per container
\* coordinate at every point; the only other live handle is the one a
\* running get_chunk_mtime has opened, which is gone when it returns.
C7_OneCachedHandle ==
    /\ \A k \in Range(cache) : Count(cache, k) = 1
    /\ Len(held) <= 1
    /\ pc # "mtime_open" => held = <<>>

\* get_chunk_mtime holds a second handle of a region whose handle is cached.
C7_Witness ==
    /\ pc = "mtime_open" /\ held # <<>> /\ held[1] \in Range(cache)
    /\ Len(cache) = CacheCapacity

\* C8: no failure inside get_chunk or get_chunk_mtime aborts the query:
\* every call ends with None or Some.
C8_QueriesNeverPanic == pc # "panicked" /\ result # "panic"

\* C9: get_chunk_mtime leaves the entries of the cache and their order
\* unchanged in each of its steps, and makes one fs.open call whenever the
\* region is in the discovered set, cached or not.
C9_MtimeBypassesCache ==
    [][/\ \A xz \in MtimeInputs :
             GetChunkMtimeOpen(xz)
               => /\ cache' = cache
                  /\ RegionKey(xz) \in Range(regions) => opens' = 1
       /\ GetChunkMtimeFinish => (cache' = cache /\ opens' = opens)]_vars

\* get_chunk_mtime has returned a timestamp, after one fs.open call, for a
\* region whose handle is cached and is not the most recently used one.
C9_Witness ==
    /\ call.op = "get_chunk_mtime" /\ pc = "idle" /\ result = "Some" /\ opens = 1
    /\ RegionKey(call.xz) \in Range(cache)
    /\ cache[Len(cache)] # RegionKey(call.xz)

\* v mod 32 for an i64 v: 2^64 and the limb base are multiples of 32, so
\* the lowest limb decides.
Mod32(v) == v[1] % 32

\* For every chunk coordinate the queries are given, extremes of i64
\* included: the in-region part of split::<Region>() has x and z in
\* [0, 32), the casts to u8 give those same numbers, and they are x mod 32
\* and z mod 32; a coordinate that differs only in y has the same region
\* and the same offset.
OffsetsOfInputs ==
    \A xz \in ChunkInputs :
        LET c == ChunkSplits[xz][1]
        IN  /\ IsSmall(c.x) /\ ToInt(c.x) \in 0 .. 31
            /\ IsSmall(c.z) /\ ToInt(c.z) \in 0 .. 31
            /\ ChunkOffset(xz) = <<ToInt(c.x), ToInt(c.z)>>
            /\ ChunkOffset(xz) = <<Mod32(xz.x), Mod32(xz.z)>>
            /\ IsSmall(xz.x) => ChunkOffset(xz)[1] = ToInt(xz.x) % 32
            /\ IsSmall(xz.z) => ChunkOffset(xz)[2] = ToInt(xz.z) % 32
            /\ \A other \in ChunkInputs :
                  (other.x = xz.x /\ other.z = xz.z)
                    => /\ RegionKey(other) = RegionKey(xz)
                       /\ ChunkOffset(other) = ChunkOffset(xz)

\* C14: the in-region offset of every chunk coordinate is (x mod 32,
\* z mod 32), within [0, 32) and unchanged by the casts to u8, and does not
\* depend on y, nor does the region; and the offset a call has handed to
\* the RegionFile is (x mod 32, z mod 32) of the coordinate it was called
\* with.
C14_OffsetIsMod32 ==
    /\ OffsetsOfInputs
    /\ offset # <<>> => offset = <<Mod32(call.xz.x), Mod32(call.xz.z)>>

\* get_chunk_mtime has handed the offset (31, 1) to the file of region
\* (-1, -1) for the chunk (-1, -3, -31).
C14_Witness ==
    /\ call = [op |-> "get_chunk_mtime", xz |-> IntCoord(-1, -3, -31)]
    /\ pc = "idle" /\ offset = <<31, 1>>

(***************************************************************************)
(* Properties of Regionset::new, checked under SpecNew.                    *)
(***************************************************************************)

NoDot(str) == \A i \in 1 .. Len(str) : str[i] # "."

\* The pairs <<A, B>> with name = "r." A "." B ".mca", A and B free of dots:
\* none or one.
MiddlePieces(name) ==
    IF Len(name) >= 7 /\ name[1] = "r" /\ name[2] = "."
          /\ SubSeq(name, Len(name) - 3, Len(name)) = <<".", "m", "c", "a">>
    THEN {pq \in {<<SubSeq(name, 3, i - 1), SubSeq(name, i + 1, Len(name) - 4)>> :
                     i \in {j \in 3 .. (Len(name) - 4) : name[j] = "."}} :
             NoDot(pq[1]) /\ NoDot(pq[2])}
    ELSE {}

Unsigned(str) == IF str # <<>> /\ Head(str) \in {"+", "-"} THEN Tail(str) ELSE str

RECURSIVE StripZeros(_)
StripZeros(ds) == IF Len(ds) > 1 /\ Head(ds) = "0" THEN StripZeros(Tail(ds)) ELSE ds

\* a <= b for digit strings of one length
DigitsLeq(a, b) ==
    \/ a = b
    \/ \E i \in 1 .. Len(a) :
          /\ DigitValue(a[i]) < DigitValue(b[i])
          /\ \A j \in 1 .. (i - 1) : a[j] = b[j]

\* str is a base-10 signed integer of i64: an optional sign, one or more
\* digits, a value from -2^63 to 2^63 - 1.
IsI64Decimal(str) ==
    LET ds    == Unsigned(str)
        limit == IF str # <<>> /\ Head(str) = "-" THEN Tail(FormatI64(I64Min))
                 ELSE FormatI64(I64Max)
    IN  /\ ds # <<>>
        /\ \A i \in 1 .. Len(ds) : ds[i] \in DigitSet
        /\ \/ Len(StripZeros(ds)) < Len(limit)
           \/ Len(StripZeros(ds)) = Len(limit) /\ DigitsLeq(StripZeros(ds), limit)

\* The canonical decimal of the integer str denotes: no "+", no leading
\* zeros, "-" only before a number other than zero.
Canonical(str) ==
    LET mag == StripZeros(Unsigned(str))
    IN  IF Head(str) = "-" /\ mag # <<"0">> THEN <<"-">> \o mag ELSE mag

IsRegionFileName(name) ==
    \E pq \in MiddlePieces(name) : IsI64Decimal(pq[1]) /\ IsI64Decimal(pq[2])

\* The coordinate k is the one the region file name denotes.
Denotes(name, k) ==
    \E pq \in MiddlePieces(name) :
        FormatI64(k[1]) = Canonical(pq[1]) /\ FormatI64(k[2]) = Canonical(pq[2])

\* C11: at every point of Regionset::new, regions holds one coordinate for
\* each entry taken so far whose name is "r", a base-10 signed integer x, a
\* base-10 signed integer z and "mca", joined by dots, and that coordinate
\* is (x, z); every other name adds nothing, and no name makes the
\* constructor fail: it fails only before its loop.
C11_DiscoveredExactlyRegionFiles ==
    /\ Len(regions) = Cardinality({i \in 1 .. nidx : IsRegionFileName(dirFiles[i])})
    /\ \A i \in 1 .. nidx :
          IsRegionFileName(dirFiles[i])
            => \E k \in Range(regions) : Denotes(dirFiles[i], k)
    /\ \A k \in Range(regions) :
          \E i \in 1 .. nidx : IsRegionFileName(dirFiles[i]) /\ Denotes(dirFiles[i], k)
    /\ npc = "err" => nidx = 0

\* Regionset::new has returned Ok for a directory of two entries: it took
\* (1, -1) from r.+1.-01.mca and skipped the other one.
C11_Witness ==
    /\ npc = "ok" /\ Len(dirFiles) = MaxNames
    /\ regions = << <<FromInt(1), FromInt(-1)>> >>
    /\ RegionFileName(<<FromInt(1), FromInt(-1)>>) \notin Range(dirFiles)

\* C13: for every coordinate Regionset::new has put in regions, the name
\* get_chunk and get_chunk_mtime rebuild from it, r.<x>.<z>.mca in
\* canonical decimal, is the name of an entry of the directory listing.
C13_RebuiltNameListed ==
    \A k \in Range(regions) : RegionFileName(k) \in Range(dirFiles)

(***************************************************************************)
(* Properties of World::new, checked under SpecWorld.                      *)
(***************************************************************************)

\* The entry is a directory with a name of more than ".mca" that ends in it.
HasDotMcaName(entry) ==
    /\ entry.isDir
    /\ \E j \in 1 .. Len(entry.listing) :
          LET name == entry.listing[j]
          IN  /\ Len(name) > 4
              /\ SubSeq(name, Len(name) - 3, Len(name)) = <<".", "m", "c", "a">>

\* The entry is a directory with a file of the pattern r.x.z.mca, x and z
\* integers.
HasRegionFile(entry) ==
    /\ entry.isDir
    /\ \E j \in 1 .. Len(entry.listing) : ParseRegionName(entry.listing[j]) # <<>>

IsRegionset(entry) ==
    \E r \in 1 .. Len(regionsets) : regionsets[r].region_dir = entry.name

\* C10 as claimed: after a successful World::new an entry of the world
\* directory is a Regionset if and only if it is a directory with at least
\* one file of the container pattern r.x.z.mca.
C10_RegionsetIffRegionFile ==
    wpc = "ok" =>
        \A i \in 1 .. Len(rootDir) : IsRegionset(rootDir[i]) <=> HasRegionFile(rootDir[i])

\* C10 as amended: after a successful World::new an entry of the world
\* directory is a Regionset if and only if it is a directory with at least
\* one entry whose name has the extension mca, a region file name or not;
\* a directory with a region file is among them, one with no .mca name is
\* ignored.
C10_RegionsetIffMcaName ==
    wpc = "ok" =>
        \A i \in 1 .. Len(rootDir) :
            /\ IsRegionset(rootDir[i]) <=> HasDotMcaName(rootDir[i])
            /\ HasRegionFile(rootDir[i]) => IsRegionset(rootDir[i])

\* World::new has succeeded on a world with a directory of region files
\* among other files, now a Regionset, and a directory it has ignored.
C10_Witness ==
    /\ wpc = "ok"
    /\ \E i \in 1 .. Len(rootDir) :
          /\ HasRegionFile(rootDir[i]) /\ IsRegionset(rootDir[i])
          /\ \E j \in 1 .. Len(rootDir[i].listing) :
                ParseRegionName(rootDir[i].listing[j]) = <<>>
    /\ \E i \in 1 .. Len(rootDir) : rootDir[i].isDir /\ ~IsRegionset(rootDir[i])

\* The steps of World::new the claim names: the existence check of the
\* root, opening, decompressing and parsing level.dat, Regionset::new.
NamedFailures == {"exists", "open", "gzip", "parse", "Regionset::new"}

\* C12: in every step of World::new, once one of the named steps has
\* failed (worldErr records it) the call has returned Err, and so it has
\* after any other recorded failure; no step follows a return, so nothing
\* is retried; the loop takes the entries one by one; and Ok is returned
\* only with no failure recorded and a Regionset for every directory that
\* has an .mca entry, none skipped.
C12_FailureAborts ==
    [][/\ worldErr' \in NamedFailures => wpc' = "err"
       /\ worldErr' # "none" => wpc' = "err"
       /\ wpc \notin {"ok", "err"}
       /\ widx' \in {widx, widx + 1}
       /\ wpc' = "err" => (regionsets' = regionsets /\ widx' = widx)
       /\ wpc' = "ok" =>
             /\ worldErr' = "none"
             /\ Len(regionsets') =
                   Cardinality({i \in 1 .. Len(rootDir) : HasDotMcaName(rootDir[i])})]_vars

\* World::new has returned Err because the second Regionset could not be
\* built, the first one having been built.
C12_Witness ==
    /\ wpc = "err" /\ worldErr = "Regionset::new"
    /\ Len(regionsets) = 1 /\ widx >= 1
    /\ HasDotMcaName(rootDir[widx + 1])

(***************************************************************************)
(* Properties of the coordinate algebra, checked under SpecCoord.          *)
(***************************************************************************)

Axes == <<"x", "y", "z">>

\* The shift of axis i between the levels El and Mid of the state.
ShiftOf(i) == Size(tyMid)[i] - Size(tyEl)[i]

LastStep == IF steps = <<>> THEN "" ELSE steps[Len(steps)]

\* C1: for every well-typed (El, Mid, End) and every coordinate, negative
\* ones and the i64 extremes included, split::<Mid>() followed by join of
\* the two parts gives back the coordinate on all three axes, with no panic
\* and no overflow on the way.
C1_SplitThenJoin ==
    (given.kind = "whole" /\ steps = <<"split", "join">>)
        => (whole = given.c /\ panic = "none" /\ ~overflow)

\* A round trip of a coordinate that is negative on x, whose parts differ
\* from it, has been made at every pair of levels below World.
C1_Witness ==
    /\ given.kind = "whole" /\ steps = <<"split", "join">>
    /\ tyEl = "Block" /\ tyMid = "Region" /\ tyEnd = "World"
    /\ SignBit(given.c.x) = 1
    /\ partA.x # given.c.x /\ partB.x # given.c.x
    /\ whole = given.c

\* 0 <= v < 2^shift
AxisInRange(v, shift) == Shr(v, shift) = I64Zero

\* o << shift loses no bit: -2^(63-shift) <= o < 2^(63-shift)
AxisShiftExact(o, shift) == Shr(Shl(o, shift), shift) = o

PartsInRange(a, b) ==
    \A i \in 1 .. 3 :
        AxisInRange(a[Axes[i]], ShiftOf(i)) /\ AxisShiftExact(b[Axes[i]], ShiftOf(i))

\* C2 as claimed: for any integer components of a and b, splitting
\* a.join(b) at the middle level gives back (a, b).
C2_SplitOfJoin_AnyParts ==
    (given.kind = "parts" /\ steps = <<"join", "split">>)
        => (partA = given.a /\ partB = given.b)

\* C2 as amended: when every component of a lies in [0, 2^shift) and every
\* component of b can be shifted left by shift without losing a bit,
\* splitting a.join(b) at the middle level gives back (a, b), with no
\* overflow; and the doc example of join holds.
C2_SplitOfJoin_InRange ==
    /\ (given.kind = "parts" /\ steps = <<"join", "split">>
            /\ PartsInRange(given.a, given.b))
        => (partA = given.a /\ partB = given.b /\ ~overflow /\ panic = "none")
    /\ (given.kind = "parts" /\ steps # <<>> /\ tyEl = "Block" /\ tyMid = "Chunk"
            /\ given.a = IntCoord(13, 64, 12) /\ given.b = IntCoord(2, 0, -2))
        => whole = IntCoord(45, 64, -20)

\* An in-range a that is not zero and an exactly shifted b that is not zero
\* have been joined and split again.
C2_Witness ==
    /\ given.kind = "parts" /\ steps = <<"join", "split">>
    /\ PartsInRange(given.a, given.b)
    /\ given.a.x = FromInt(15) /\ given.b.x = FromInt(-2) /\ given.b.z = FromInt(-2)
    /\ partA = given.a /\ partB = given.b
    /\ whole # given.a

C4_WorldSizeUnreachable == "World" \notin sizeLog /\ panic = "none"

\* A split and a join whose outer level is World have both run, having
\* evaluated size() on Region and everything below it.
C4_Witness ==
    /\ steps = <<"split", "join">> /\ tyEnd = "World" /\ tyMid = "Region"
    /\ sizeLog = {"Block", "Section", "Chunk", "Region"}

=============================================================================
